---- MODULE Spec2Model ----
(***************************************************************************)
(* Model of packages/fb-babel-plugin-utils/TestUtil.js: the AST comparison *)
(* helper (stripMeta, normalizeSourceCode, assertSourceAstEqual) and the  *)
(* table-driven runner (testSection, testCase).                            *)
(*                                                                         *)
(* JavaScript values are tagged records [k, val]:                          *)
(*   k = "obj"  val = function from own property names to values           *)
(*   k = "arr"  val = sequence of values                                   *)
(*   k = "num" / "str" / "bool" / "null"   val = the scalar               *)
(***************************************************************************)
EXTENDS Integers, Sequences, FiniteSets, TLC

VARIABLES
  \* ---- stripMeta exercised on a pair of trees ----
  treeA, treeB,        \* two trees that agree outside the excluded fields
  sOptions,            \* the options argument handed to stripMeta
  sOutA, sOutB,        \* what stripMeta returned for treeA / treeB
  sPhase,              \* "build" | "stripped" | "strippedExpected" (only
                       \* treeA was stripped); "off": no call yet
  sWraps, sMetas,      \* how many wrappers / metadata fields were added
  \* ---- the mismatch report's string arithmetic ----
  rLeft, rRight,       \* the two renderings
  rReport,             \* [commonStr, excerptExpected, excerptActual]
  rPhase,              \* "init" | "done"
  \* ---- assertSourceAstEqual ----
  aExpected, aActual, aOptions, aPrinter,
  aResult,             \* outcome record of the last call
  aPhase,              \* "idle" | "returned"
  \* ---- testSection / testCase ----
  tTable,              \* the test table, as its own keys in enumeration order
  tOptions,            \* the shared options given to testSection
  tGroups,             \* describe() calls so far
  tTests,              \* it() registrations so far: <<name, entry>>
  tCalls,              \* number of transform invocations so far
  tRuns,               \* tests run so far, and the record of the last run
  tPhase               \* "unregistered", or the entry point that was called:
                       \* "testCase" | "testSection"

stripVars  == <<treeA, treeB, sOptions, sOutA, sOutB, sPhase, sWraps, sMetas>>
reportVars == <<rLeft, rRight, rReport, rPhase>>
assertVars == <<aExpected, aActual, aOptions, aPrinter, aResult, aPhase>>
runVars    == <<tTable, tOptions, tGroups, tTests, tCalls, tRuns, tPhase>>
vars       == <<stripVars, reportVars, assertVars, runVars>>

----------------------------------------------------------------------------
(* JavaScript values *)

Num(n)  == [k |-> "num",  val |-> n]
Str(s)  == [k |-> "str",  val |-> s]
Bool(b) == [k |-> "bool", val |-> b]
Null    == [k |-> "null", val |-> "null"]
Obj(f)  == [k |-> "obj",  val |-> f]
Arr(s)  == [k |-> "arr",  val |-> s]
EmptyObj == Obj(<<>>)

\* `v && typeof v === 'object'`: null is falsy, scalars are not objects
IsObject(v) == v.k \in {"obj", "arr"}
IsScalar(v) == ~IsObject(v)

Range(s) == {s[i] : i \in DOMAIN s}

\* F applied to the value of v, with v evaluated once
Bind(v, F(_)) == CHOOSE r \in {F(x) : x \in {y \in {v} : y = y}} : TRUE

\* obj with property key set to v (added or overwritten)
SetProp(o, key, v) ==
  Obj([p \in (DOMAIN o.val) \cup {key} |-> IF p = key THEN v ELSE o.val[p]])

HasProp(o, key) == o.k = "obj" /\ key \in DOMAIN o.val

\* options: undefined, or an object whose comments property is one of the tags
OptUndefined == [defined |-> FALSE, comments |-> "undefined"]
OptObject(c) == [defined |-> TRUE,  comments |-> c]
OptionValues ==
  {OptUndefined, OptObject("undefined"), OptObject("false"), OptObject("true")}

\* `options && options.comments`
KeepComments(options) == options.defined /\ options.comments = "true"

----------------------------------------------------------------------------
(* stripMeta *)

IGNORE_KEYS_NoParenStart ==
  <<"__clone", "start", "end", "raw", "rawValue", "loc", "tokens",
    "parenthesized">>

IGNORE_KEYS ==
  <<"__clone", "start", "end", "raw", "rawValue", "loc", "tokens",
    "parenthesized", "parenStart">>

COMMENT_KEYS == <<"leadingComments", "trailingComments">>

ignoreKeysFor(options) ==
  IF KeepComments(options) THEN IGNORE_KEYS ELSE IGNORE_KEYS \o COMMENT_KEYS

\* a faulty walk that descends into mappings but not into arrays
RECURSIVE stripMeta_SkipArrays(_, _)
stripMeta_SkipArrays(node, options) ==
  LET kept == IF node.k = "obj"
              THEN (DOMAIN node.val) \ Range(ignoreKeysFor(options))
              ELSE DOMAIN node.val
  IN  [k |-> node.k,
       val |-> [p \in kept |->
                 IF node.val[p].k = "obj" /\ node.k = "obj"
                 THEN stripMeta_SkipArrays(node.val[p], options)
                 ELSE node.val[p]]]

\* a faulty walk that also drops falsy scalar fields
RECURSIVE stripMeta_DropFalsy(_, _)
stripMeta_DropFalsy(node, options) ==
  LET kept == IF node.k = "obj"
              THEN {p \in (DOMAIN node.val) \ Range(ignoreKeysFor(options)) :
                      node.val[p].k # "null"}
              ELSE DOMAIN node.val
  IN  [k |-> node.k,
       val |-> [p \in kept |->
                 IF IsObject(node.val[p])
                 THEN stripMeta_DropFalsy(node.val[p], options)
                 ELSE node.val[p]]]

\* stripMeta(node, options): delete the ignored keys of node, then walk every
\* remaining property (for..in: the indices of an array, the keys of a
\* mapping) and strip each one that is an object.
RECURSIVE stripMeta(_, _)
stripMeta(node, options) ==
  LET kept == IF node.k = "obj"
              THEN (DOMAIN node.val) \ Range(ignoreKeysFor(options))
              ELSE DOMAIN node.val
  IN  [k |-> node.k,
       val |-> [p \in kept |->
                 IF IsObject(node.val[p])
                 THEN stripMeta(node.val[p], options)
                 ELSE node.val[p]]]

\* a faulty comparison that compares mappings by key set only, one level deep
deepStrictEqual_Shallow(a, b) ==
  a.k = b.k /\ DOMAIN a.val = DOMAIN b.val

\* assert.deepStrictEqual on trees: same kind; scalars by value; arrays by
\* length and element-wise in order; mappings by key set and value.
RECURSIVE deepStrictEqual(_, _)
deepStrictEqual(a, b) ==
  IF a.k # b.k THEN FALSE
  ELSE IF a.k = "arr"
       THEN /\ Len(a.val) = Len(b.val)
            /\ \A i \in DOMAIN a.val : deepStrictEqual(a.val[i], b.val[i])
  ELSE IF a.k = "obj"
       THEN /\ DOMAIN a.val = DOMAIN b.val
            /\ \A p \in DOMAIN a.val : deepStrictEqual(a.val[p], b.val[p])
  ELSE a.val = b.val

----------------------------------------------------------------------------
(* Specification SpecStrip: stripMeta on trees built node by node.          *)
(* treeA and treeB are grown together and agree on every field outside the  *)
(* ignored keys; they keep the trees as they were before the call, sOutA    *)
(* and sOutB are the nodes as stripMeta left them.                          *)

MaxWraps == 2      \* wrappers put around the leaf (tree depth)
MaxMetas == 2      \* metadata / comment groups added over the whole tree

Position(n) ==
  Obj([p \in {"line", "column"} |-> IF p = "line" THEN Num(1) ELSE Num(n)])
Loc(n) ==
  Obj([p \in {"start", "end"} |-> IF p = "start" THEN Position(n)
                                                   ELSE Position(n + 1)])

\* the fields the parser attaches to a node, in two variants v \in {1, 2}
MetaProfiles == {"position", "raw", "paren", "misc"}
MetaFields(profile, v) ==
  CASE profile = "position" ->
         [p \in {"start", "end", "loc"} |->
            IF p = "start" THEN Num(v) ELSE IF p = "end" THEN Num(v + 1)
            ELSE Loc(v)]
    [] profile = "raw" ->
         [p \in {"raw", "rawValue"} |->
            IF p = "raw" THEN Str(IF v = 1 THEN "'s'" ELSE "\"s\"") ELSE Num(v)]
    [] profile = "paren" ->
         [p \in {"parenthesized", "parenStart"} |->
            IF p = "parenthesized" THEN Bool(TRUE) ELSE Num(v)]
    [] profile = "misc" ->
         [p \in {"__clone", "tokens"} |->
            IF p = "__clone" THEN Null
            ELSE Arr(<<Obj([q \in {"type", "start"} |->
                             IF q = "type" THEN Str("tok") ELSE Num(v)])>>)]

\* o with every field of the function fields set
SetProps(o, fields) ==
  Obj([p \in (DOMAIN o.val) \cup (DOMAIN fields) |->
         IF p \in DOMAIN fields THEN fields[p] ELSE o.val[p]])

\* a comment attachment: an array holding one comment node, itself positioned
CommentList(v) ==
  Arr(<<Obj([q \in {"type", "value", "start"} |->
               IF q = "type" THEN Str("CommentBlock")
               ELSE IF q = "value" THEN Str("c") ELSE Num(v)])>>)

Leaf ==
  Obj([p \in {"type", "value", "computed", "name", "optional"} |->
         CASE p = "type" -> Str("Leaf")
           [] p = "value" -> Null
           [] p = "computed" -> Bool(FALSE)
           [] p = "name" -> Str("")
           [] p = "optional" -> Num(0)])

WrapInProperty(t) ==
  Obj([p \in {"type", "expression"} |->
         IF p = "type" THEN Str("ExpressionStatement") ELSE t])
WrapInArray(t) ==
  Obj([p \in {"type", "body", "directives"} |->
         CASE p = "type" -> Str("BlockStatement")
           [] p = "body" -> Arr(<<Num(7), t, Null>>)
           [] p = "directives" -> Arr(<<>>)])

InitRest_Strip ==
  /\ rLeft = <<>> /\ rRight = <<>> /\ rReport = <<>> /\ rPhase = "off"
  /\ aExpected = <<>> /\ aActual = <<>> /\ aOptions = OptUndefined
  /\ aPrinter = "off" /\ aResult = <<>> /\ aPhase = "off"
  /\ tTable = <<>> /\ tOptions = OptUndefined /\ tGroups = <<>>
  /\ tTests = <<>> /\ tCalls = <<>> /\ tRuns = <<>> /\ tPhase = "off"

InitStrip ==
  /\ treeA = Leaf /\ treeB = Leaf
  /\ sOptions = OptUndefined
  /\ sOutA = EmptyObj /\ sOutB = EmptyObj
  /\ sPhase = "build" /\ sWraps = 0 /\ sMetas = 0
  /\ InitRest_Strip

\* the parser attaches metadata to the current root: to treeA only, or to
\* both trees with different values
AddMeta ==
  /\ sPhase = "build" /\ sMetas < MaxMetas
  /\ \E profile \in MetaProfiles, both \in BOOLEAN :
       /\ treeA' = SetProps(treeA, MetaFields(profile, 1))
       /\ treeB' = IF both THEN SetProps(treeB, MetaFields(profile, 2))
                   ELSE treeB
  /\ sMetas' = sMetas + 1
  /\ UNCHANGED <<sOptions, sOutA, sOutB, sPhase, sWraps>>
  /\ UNCHANGED <<reportVars, assertVars, runVars>>

\* the parser attaches the same comment to the current root of both trees,
\* at different offsets
AddComments ==
  /\ sPhase = "build" /\ sMetas < MaxMetas
  /\ \E key \in Range(COMMENT_KEYS) \cup {"innerComments"} :
       /\ treeA' = SetProp(treeA, key, CommentList(1))
       /\ treeB' = SetProp(treeB, key, CommentList(2))
  /\ sMetas' = sMetas + 1
  /\ UNCHANGED <<sOptions, sOutA, sOutB, sPhase, sWraps>>
  /\ UNCHANGED <<reportVars, assertVars, runVars>>

WrapProperty ==
  /\ sPhase = "build" /\ sWraps < MaxWraps
  /\ treeA' = WrapInProperty(treeA) /\ treeB' = WrapInProperty(treeB)
  /\ sWraps' = sWraps + 1
  /\ UNCHANGED <<sOptions, sOutA, sOutB, sPhase, sMetas>>
  /\ UNCHANGED <<reportVars, assertVars, runVars>>

WrapArray ==
  /\ sPhase = "build" /\ sWraps < MaxWraps
  /\ treeA' = WrapInArray(treeA) /\ treeB' = WrapInArray(treeB)
  /\ sWraps' = sWraps + 1
  /\ UNCHANGED <<sOptions, sOutA, sOutB, sPhase, sMetas>>
  /\ UNCHANGED <<reportVars, assertVars, runVars>>

\* stripMeta(treeA, options) and stripMeta(treeB, options)
StripMeta ==
  /\ sPhase = "build"
  /\ \E options \in OptionValues :
       /\ sOptions' = options
       /\ sOutA' = stripMeta(treeA, options)
       /\ sOutB' = stripMeta(treeB, options)
  /\ sPhase' = "stripped"
  /\ UNCHANGED <<treeA, treeB, sWraps, sMetas>>
  /\ UNCHANGED <<reportVars, assertVars, runVars>>

NextStrip == AddMeta \/ AddComments \/ WrapProperty \/ WrapArray \/ StripMeta

SpecStrip == InitStrip /\ [][NextStrip]_vars


----------------------------------------------------------------------------
(* Properties of stripMeta (SpecStrip) *)

\* the fixed exclusion set and the conditional comment attachments, as the
\* specification lists them
ExcludedFieldNames ==
  {"start", "end", "loc", "raw", "rawValue", "tokens", "parenthesized",
   "parenStart", "__clone"}
CommentFieldNames == {"leadingComments", "trailingComments"}

\* no node reachable from t carries a key of names
RECURSIVE NoKeyAnywhere(_, _)
NoKeyAnywhere(t, names) ==
  /\ t.k = "obj" => (DOMAIN t.val) \cap names = {}
  /\ \A p \in DOMAIN t.val :
       IsObject(t.val[p]) => NoKeyAnywhere(t.val[p], names)

\* some node strictly inside an array element of t carries a key of names
RECURSIVE KeyInsideArray(_, _, _)
KeyInsideArray(t, names, inArray) ==
  \/ inArray /\ t.k = "obj" /\ (DOMAIN t.val) \cap names # {}
  \/ \E p \in DOMAIN t.val :
       /\ IsObject(t.val[p])
       /\ ~(t.k = "obj" /\ p \in names)
       /\ KeyInsideArray(t.val[p], names, inArray \/ t.k = "arr")

\* a and b are identical except for the values or presence of fields in names
RECURSIVE SameOutside(_, _, _)
SameOutside(a, b, names) ==
  IF a.k # b.k THEN FALSE
  ELSE IF a.k = "arr"
       THEN /\ Len(a.val) = Len(b.val)
            /\ \A i \in DOMAIN a.val : SameOutside(a.val[i], b.val[i], names)
  ELSE IF a.k = "obj"
       THEN /\ (DOMAIN a.val) \ names = (DOMAIN b.val) \ names
            /\ \A p \in (DOMAIN a.val) \ names :
                 SameOutside(a.val[p], b.val[p], names)
  ELSE a.val = b.val

\* C9: after stripMeta returns, no node reachable from the root, at any depth
\* and of any kind, has a key of the fixed exclusion set; and unless
\* options.comments is truthy no reachable node has leadingComments or
\* trailingComments either.
C9_UniformExclusion ==
  sPhase = "stripped" =>
    /\ NoKeyAnywhere(sOutA, ExcludedFieldNames)
    /\ NoKeyAnywhere(sOutB, ExcludedFieldNames)
    /\ ~KeepComments(sOptions) =>
         /\ NoKeyAnywhere(sOutA, CommentFieldNames)
         /\ NoKeyAnywhere(sOutB, CommentFieldNames)

C9_Witness ==
  /\ sPhase = "stripped" /\ sWraps >= 2
  /\ ~KeepComments(sOptions)
  /\ KeyInsideArray(treeA, ExcludedFieldNames, FALSE)
  /\ KeyInsideArray(treeA, CommentFieldNames, FALSE)
  /\ NoKeyAnywhere(sOutA, ExcludedFieldNames \cup CommentFieldNames)

\* every scalar field of every node of before is present in after with the
\* same value (nodes that are gone from after are not looked into)
RECURSIVE ScalarsKept(_, _)
ScalarsKept(before, after) ==
  \A p \in DOMAIN before.val :
    IF IsScalar(before.val[p])
    THEN p \in DOMAIN after.val /\ after.val[p] = before.val[p]
    ELSE p \in DOMAIN after.val => ScalarsKept(before.val[p], after.val[p])

\* after is before with exactly the fields named in names removed, at every
\* depth: every other field is present, scalars with the same value, arrays
\* with the same length and order
RECURSIVE OnlyRemoved(_, _, _)
OnlyRemoved(before, after, names) ==
  /\ after.k = before.k
  /\ IF before.k = "obj"
     THEN DOMAIN after.val = (DOMAIN before.val) \ names
     ELSE DOMAIN after.val = DOMAIN before.val
  /\ \A p \in DOMAIN after.val :
       IF IsScalar(before.val[p])
       THEN after.val[p] = before.val[p]
       ELSE OnlyRemoved(before.val[p], after.val[p], names)

RemovedNames(options) ==
  IF KeepComments(options) THEN ExcludedFieldNames
  ELSE ExcludedFieldNames \cup CommentFieldNames

\* C10 as stated: every field whose value is a scalar is present with the
\* same value after the pass as before it.
C10_Original_EveryScalarKept ==
  sPhase = "stripped" => ScalarsKept(treeA, sOutA)

\* C10 amended: the pass removes the excluded fields (scalar or not) and
\* nothing else; every scalar field whose key is not excluded, on every node
\* that is not under an excluded field, keeps its value, falsy ones included.
C10_Frame ==
  sPhase = "stripped" =>
    /\ OnlyRemoved(treeA, sOutA, RemovedNames(sOptions))
    /\ OnlyRemoved(treeB, sOutB, RemovedNames(sOptions))

C10_Witness ==
  /\ sPhase = "stripped" /\ sWraps >= 2
  /\ HasProp(treeA, "start") /\ ~HasProp(sOutA, "start")
  /\ HasProp(sOutA, "body")
  /\ sOutA.val.body.val[1] = Num(7) /\ sOutA.val.body.val[3] = Null
  /\ HasProp(sOutA.val.body.val[2], "expression")
  /\ sOutA.val.body.val[2].val.expression.val.value = Null
  /\ sOutA.val.body.val[2].val.expression.val.name = Str("")

----------------------------------------------------------------------------
(* The mismatch report's string arithmetic. Strings are sequences of       *)
(* one-character strings.                                                   *)

Min(a, b) == IF a < b THEN a ELSE b

\* String.prototype.substr(start, length) for start, length >= 0
substr(str, start, length) ==
  IF start >= Len(str) THEN <<>>
  ELSE SubSeq(str, start + 1, Min(Len(str), start + length))

\* a faulty scan that does not stop at the first mismatch
firstCommonSubstring_NoBreak(left, right) ==
  substr(left, 0, Min(Len(left), Len(right)))

\* the loop of firstCommonSubstring: the index at which the scan stops
RECURSIVE scanCommon(_, _, _)
scanCommon(left, right, i) ==
  IF i < Len(left) /\ i < Len(right) /\ left[i + 1] = right[i + 1]
  THEN scanCommon(left, right, i + 1)
  ELSE i

firstCommonSubstring(left, right) ==
  substr(left, 0, scanCommon(left, right, 0))

excerptLength == 60

\* lines 111-123: the common string and the two excerpts of the report
divergenceExcerpts(expectedFormattedCode, actualFormattedCode) ==
  LET commonStr == firstCommonSubstring(expectedFormattedCode,
                                        actualFormattedCode)
  IN  [commonStr |-> commonStr,
       excerptDiffFromExpected |->
         substr(expectedFormattedCode, Len(commonStr), excerptLength),
       excerptDiffFromActual |->
         substr(actualFormattedCode, Len(commonStr), excerptLength)]

(* Specification SpecReport: the report arithmetic on pairs of renderings   *)
(* stem \o filler \o tail, the filler long enough to cross the excerpt      *)
(* length.                                                                  *)

MaxStem == 2     \* length of the free stem of a rendering
MaxTail == 1     \* length of the free tail of a rendering

ReportChars == {"a", "b"}

RECURSIVE SeqsUpTo(_, _)
SeqsUpTo(S, n) ==
  IF n = 0 THEN {<<>>}
  ELSE LET shorter == SeqsUpTo(S, n - 1)
       IN  shorter \cup {Append(q, c) : q \in shorter, c \in S}

Filler(n) == [i \in 1..n |-> "x"]
FillerLengths == {0, excerptLength - 1, excerptLength, excerptLength + 1}

Renderings ==
  {stem \o Filler(n) \o tail :
     stem \in SeqsUpTo(ReportChars, MaxStem),
     n \in FillerLengths,
     tail \in SeqsUpTo(ReportChars, MaxTail)}

InitRest_Report ==
  /\ treeA = EmptyObj /\ treeB = EmptyObj /\ sOptions = OptUndefined
  /\ sOutA = EmptyObj /\ sOutB = EmptyObj /\ sPhase = "off"
  /\ sWraps = 0 /\ sMetas = 0
  /\ aExpected = <<>> /\ aActual = <<>> /\ aOptions = OptUndefined
  /\ aPrinter = "off" /\ aResult = <<>> /\ aPhase = "off"
  /\ tTable = <<>> /\ tOptions = OptUndefined /\ tGroups = <<>>
  /\ tTests = <<>> /\ tCalls = <<>> /\ tRuns = <<>> /\ tPhase = "off"

InitReport ==
  /\ rLeft \in Renderings /\ rRight \in Renderings
  /\ rReport = divergenceExcerpts(<<>>, <<>>)
  /\ rPhase = "init"
  /\ InitRest_Report

BuildReport ==
  /\ rPhase = "init"
  /\ rReport' = divergenceExcerpts(rLeft, rRight)
  /\ rPhase' = "done"
  /\ UNCHANGED <<rLeft, rRight>>
  /\ UNCHANGED <<stripVars, assertVars, runVars>>

NextReport == BuildReport

SpecReport == InitReport /\ [][NextReport]_vars

IsPrefixOf(p, str) == Len(p) <= Len(str) /\ SubSeq(str, 1, Len(p)) = p

\* e is the part of str that starts at offset n and has at most 60 characters
IsExcerptAt(e, str, n) ==
  /\ Len(e) = (IF Len(str) - n > 60 THEN 60
               ELSE IF Len(str) - n < 0 THEN 0 ELSE Len(str) - n)
  /\ \A j \in 1..Len(e) : e[j] = str[n + j]

\* C6: the common string is the longest common prefix of the two renderings;
\* each excerpt starts at exactly that prefix length and has at most 60
\* characters; when the renderings differ the excerpts begin at the first
\* point of divergence.
C6_ReportExact ==
  rPhase = "done" =>
    LET n == Len(rReport.commonStr)
        e == rReport.excerptDiffFromExpected
        a == rReport.excerptDiffFromActual
    IN  /\ IsPrefixOf(rReport.commonStr, rLeft)
        /\ IsPrefixOf(rReport.commonStr, rRight)
        /\ \/ n = Min(Len(rLeft), Len(rRight))
           \/ rLeft[n + 1] # rRight[n + 1]
        /\ IsExcerptAt(e, rLeft, n)
        /\ IsExcerptAt(a, rRight, n)
        /\ rLeft # rRight => (e = <<>> \/ a = <<>> \/ e[1] # a[1])

C6_Witness ==
  /\ rPhase = "done" /\ rLeft # rRight
  /\ Len(rReport.commonStr) >= 1
  /\ Len(rLeft) - Len(rReport.commonStr) > 60
  /\ Len(rReport.excerptDiffFromExpected) = 60
  /\ rReport.excerptDiffFromActual # <<>>
  /\ rReport.excerptDiffFromExpected[1] # rReport.excerptDiffFromActual[1]

----------------------------------------------------------------------------
(* The parser and the printer (@babel/parser, @babel/generator) on a small  *)
(* fragment of the language. A source text is a sequence of one-character   *)
(* lexemes:                                                                 *)
(*    "a"  the statement  a;          "s"  the statement  's';  (in an      *)
(*    "d"  the statement  "s";             expression position)             *)
(*    " "  white space: a line break  "c"  the comment  /*c*/               *)
(*    "{"  "}"  a block statement                                           *)
(*    "<"  ">"  the tags  <b>  and  </b>  of a JSX element (plugin 'jsx')   *)
(* Between the tags of an element every lexeme but a tag is JSX text, white *)
(* space included. An element in statement position is an expression        *)
(* statement without a semicolon: it ends at the end of the text, before a  *)
(* closing brace, or at a line break (automatic semicolon insertion). A     *)
(* brace between the tags of an element is outside the fragment.            *)
(* Offsets are 0-based lexeme indices.                                      *)

SourceChars == {"a", "s", "d", " ", "c", "{", "}"}

\* what is text between the tags of an element
JSXTextChars == {"a", "s", "d", " ", "c"}

NodeLoc(start, end) ==
  Obj([p \in {"start", "end"} |->
         IF p = "start" THEN Position(start) ELSE Position(end)])

\* type, start, end, loc: the fields every parsed node carries
Node(type, start, end, fields) ==
  Obj([p \in {"type", "start", "end", "loc"} \cup DOMAIN fields |->
         CASE p = "type"  -> Str(type)
           [] p = "start" -> Num(start)
           [] p = "end"   -> Num(end)
           [] p = "loc"   -> NodeLoc(start, end)
           [] OTHER       -> fields[p]])

CommentNode(i) ==
  Node("CommentBlock", i - 1, i, [p \in {"value"} |-> Str("c")])

RawOf(c) == IF c = "s" THEN "'s'" ELSE "\"s\""

ExpressionNode(c, i) ==
  IF c = "a"
  THEN Node("Identifier", i - 1, i, [p \in {"name"} |-> Str("a")])
  ELSE Node("StringLiteral", i - 1, i,
            [p \in {"value", "extra"} |->
               IF p = "value" THEN Str("s")
               ELSE Obj([q \in {"rawValue", "raw"} |->
                           IF q = "rawValue" THEN Str("s")
                           ELSE Str(RawOf(c))])])

StatementNode(c, i) ==
  Node("ExpressionStatement", i - 1, i,
       [p \in {"expression"} |-> ExpressionNode(c, i)])

\* the source text of a run of lexemes inside an element
RECURSIVE TextOf(_)
TextOf(run) == IF run = <<>> THEN "" ELSE Head(run) \o TextOf(Tail(run))

\* a JSXText node: its value is the text as written, white space included
JSXTextNode(run, start, end) ==
  Node("JSXText", start, end,
       [p \in {"value", "extra"} |->
          IF p = "value" THEN Str(TextOf(run))
          ELSE Obj([q \in {"rawValue", "raw"} |-> Str(TextOf(run))])])

JSXName(start, end) ==
  Node("JSXIdentifier", start, end, [p \in {"name"} |-> Str("b")])

\* the element whose opening tag is lexeme start + 1 and whose closing tag
\* is lexeme end
JSXElementNode(start, end, children) ==
  Node("JSXElement", start, end,
       [p \in {"openingElement", "closingElement", "children"} |->
          CASE p = "openingElement" ->
                 Node("JSXOpeningElement", start, start + 1,
                      [q \in {"name", "attributes", "selfClosing"} |->
                         CASE q = "name" -> JSXName(start, start + 1)
                           [] q = "attributes" -> Arr(<<>>)
                           [] q = "selfClosing" -> Bool(FALSE)])
            [] p = "closingElement" ->
                 Node("JSXClosingElement", end - 1, end,
                      [q \in {"name"} |-> JSXName(end - 1, end)])
            [] p = "children" -> Arr(children)])

JSXStatementNode(element) ==
  Node("ExpressionStatement", element.val.start.val, element.val.end.val,
       [p \in {"expression"} |-> element])

\* comment attachment inside one statement list: a comment is the trailing
\* comment of the statement before it and the leading comment of the
\* statement after it; in a list without statements it is an inner comment
\* of the enclosing node.
CommentsBetween(items, lo, hi) ==
  LET picked == SelectSeq([j \in 1..Len(items) |->
                             [item |-> items[j], at |-> j]],
                          LAMBDA x : x.at > lo /\ x.at < hi
                                      /\ x.item.kind = "comment")
  IN  [j \in 1..Len(picked) |-> picked[j].item.node]

StatementIndexes(items) ==
  LET tagged == SelectSeq([j \in 1..Len(items) |->
                             [item |-> items[j], at |-> j]],
                          LAMBDA x : x.item.kind = "statement")
  IN  [j \in 1..Len(tagged) |-> tagged[j].at]

WithComments(node, key, comments) ==
  IF comments = <<>> THEN node ELSE SetProp(node, key, Arr(comments))

AttachedBody(items) ==
  LET at == StatementIndexes(items)
      lo(m) == IF m = 1 THEN 0 ELSE at[m - 1]
      hi(m) == IF m = Len(at) THEN Len(items) + 1 ELSE at[m + 1]
  IN  [m \in 1..Len(at) |->
         WithComments(
           WithComments(items[at[m]].node, "leadingComments",
                        CommentsBetween(items, lo(m), at[m])),
           "trailingComments", CommentsBetween(items, at[m], hi(m)))]

InnerComments(items) ==
  IF StatementIndexes(items) = <<>>
  THEN CommentsBetween(items, 0, Len(items) + 1)
  ELSE <<>>

ContainerNode(type, start, end, items, extra) ==
  WithComments(
    Node(type, start, end,
         [p \in {"body", "directives"} \cup DOMAIN extra |->
            CASE p = "body" -> Arr(AttachedBody(items))
              [] p = "directives" -> Arr(<<>>)
              [] OTHER -> extra[p]]),
    "innerComments", InnerComments(items))

\* thrown values: name, the offset a syntax error points at, the stack they
\* carry, and the report that makes up the message of a mismatch error
SyntaxError(pos) ==
  [name |-> "SyntaxError", pos |-> pos, stack |-> "babelParser.parse",
   report |-> <<>>]
NoError == [name |-> "none", pos |-> 0, stack |-> "none", report |-> <<>>]

\* the last lexeme of the run of JSX text that starts at lexeme i
RECURSIVE TextEnd(_, _)
TextEnd(code, i) ==
  IF i < Len(code) /\ code[i + 1] \in JSXTextChars
  THEN TextEnd(code, i + 1) ELSE i

\* the children of an element, from lexeme i up to its closing tag (next)
RECURSIVE parseJSXChildren(_, _)
parseJSXChildren(code, i) ==
  IF i > Len(code)
  THEN [ok |-> FALSE, children |-> <<>>, next |-> i, error |-> Len(code)]
  ELSE
    LET c == code[i] IN
    CASE c = ">" ->
           [ok |-> TRUE, children |-> <<>>, next |-> i, error |-> 0]
      [] c = "<" ->
           Bind(parseJSXChildren(code, i + 1), LAMBDA inner :
             IF ~inner.ok THEN inner
             ELSE LET rest == parseJSXChildren(code, inner.next + 1)
                      child == JSXElementNode(i - 1, inner.next,
                                              inner.children)
                  IN  [rest EXCEPT !.children = <<child>> \o @])
      [] c \in JSXTextChars ->
           LET k == TextEnd(code, i)
               rest == parseJSXChildren(code, k + 1)
               child == JSXTextNode(SubSeq(code, i, k), i - 1, k)
           IN  [rest EXCEPT !.children = <<child>> \o @]

\* the first lexeme at or after i that is a token (neither white space nor
\* a comment), or Len(code) + 1
RECURSIVE NextTokenAt(_, _)
NextTokenAt(code, i) ==
  IF i <= Len(code) /\ code[i] \in {" ", "c"}
  THEN NextTokenAt(code, i + 1) ELSE i

\* an expression statement without a semicolon, ending at lexeme last, is
\* complete: the text or the block ends, or a line break comes before the
\* next token and that token does not continue the expression
StatementEndsAt(code, last) ==
  LET k == NextTokenAt(code, last + 1) IN
  \/ k > Len(code)
  \/ code[k] = "}"
  \/ /\ code[k] # "<"
     /\ \E j \in (last + 1)..(k - 1) : code[j] = " "

\* the statement list that starts at lexeme i, up to the closing brace of
\* the enclosing block (inBlock) or the end of the text
RECURSIVE parseStatementList(_, _, _)
parseStatementList(code, i, inBlock) ==
  IF i > Len(code)
  THEN [ok |-> ~inBlock, items |-> <<>>, next |-> i, error |-> Len(code)]
  ELSE
    LET c == code[i] IN
    IF c = "}"
    THEN [ok |-> inBlock, items |-> <<>>, next |-> i, error |-> i - 1]
    ELSE IF c = ">"
    THEN [ok |-> FALSE, items |-> <<>>, next |-> i, error |-> i - 1]
    ELSE IF c = " "
    THEN parseStatementList(code, i + 1, inBlock)
    ELSE IF c = "<"
    THEN Bind(parseJSXChildren(code, i + 1), LAMBDA inner :
           IF ~inner.ok
           THEN [ok |-> FALSE, items |-> <<>>, next |-> inner.next,
                 error |-> inner.error]
           ELSE IF ~StatementEndsAt(code, inner.next)
           THEN [ok |-> FALSE, items |-> <<>>, next |-> inner.next,
                 error |-> NextTokenAt(code, inner.next + 1) - 1]
           ELSE LET rest == parseStatementList(code, inner.next + 1, inBlock)
                    element == JSXElementNode(i - 1, inner.next,
                                              inner.children)
                IN  [rest EXCEPT !.items =
                       <<[kind |-> "statement",
                          node |-> JSXStatementNode(element)]>> \o @])
    ELSE IF c = "{"
    THEN Bind(parseStatementList(code, i + 1, TRUE), LAMBDA inner :
           IF ~inner.ok THEN inner
           ELSE LET rest == parseStatementList(code, inner.next + 1, inBlock)
                    block == ContainerNode("BlockStatement", i - 1,
                                           inner.next, inner.items, <<>>)
                IN  [rest EXCEPT !.items =
                       <<[kind |-> "statement", node |-> block]>> \o @])
    ELSE LET rest == parseStatementList(code, i + 1, inBlock)
             item == IF c = "c"
                     THEN [kind |-> "comment", node |-> CommentNode(i)]
                     ELSE [kind |-> "statement", node |-> StatementNode(c, i)]
         IN  [rest EXCEPT !.items = <<item>> \o @]

\* parse(code): babelParser.parse(code, {sourceType: 'module', ...}); the
\* result's program, or the syntax error it throws
parse(code) ==
  Bind(parseStatementList(code, 1, FALSE), LAMBDA r :
    IF r.ok
    THEN [ok |-> TRUE, error |-> NoError,
          program |-> ContainerNode("Program", 0, Len(code), r.items,
                                    [p \in {"sourceType"} |-> Str("module")])]
    ELSE [ok |-> FALSE, error |-> SyntaxError(r.error), program |-> EmptyObj])

\* ---- the printer ----

Printers == {"canonical", "retaining"}
\* "canonical": one separator between statements, string quotes as asked for
\* "retaining": keeps a gap of the input as a wider separator, and the raw
\*              text of a literal

CommentsOf(node, key) ==
  IF HasProp(node, key) THEN node.val[key].val ELSE <<>>

\* the lexemes of a text
CharsOf(text) == [j \in 1..Len(text) |-> SubSeq(text, j, j)]

\* an element: its tags around its children, JSX text as it was written
RECURSIVE printJSXChildren(_, _)
RECURSIVE printJSXElement(_)
printJSXChildren(children, m) ==
  IF m > Len(children) THEN <<>>
  ELSE (IF children[m].val.type.val = "JSXText"
        THEN CharsOf(children[m].val.value.val)
        ELSE printJSXElement(children[m]))
       \o printJSXChildren(children, m + 1)
printJSXElement(element) ==
  <<"<">> \o printJSXChildren(element.val.children.val, 1) \o <<">">>

printExpression(expr, quotes, printer) ==
  IF expr.val.type.val = "Identifier" THEN <<expr.val.name.val>>
  ELSE IF expr.val.type.val = "JSXElement" THEN printJSXElement(expr)
  ELSE IF quotes = "single" /\ printer = "canonical" THEN <<"s">>
  ELSE IF expr.val.extra.val.raw.val = RawOf("s") THEN <<"s">> ELSE <<"d">>

CommentUnits(comments) ==
  [j \in 1..Len(comments) |->
     [text |-> <<comments[j].val.value.val>>,
      start |-> comments[j].val.start.val, end |-> comments[j].val.end.val]]

RECURSIVE joinUnits(_, _, _)
joinUnits(units, j, printer) ==
  IF j > Len(units) THEN <<>>
  ELSE (IF j = 1 THEN <<>>
        ELSE IF printer = "retaining"
                /\ units[j].start - units[j - 1].end >= 1
             THEN <<" ", " ">> ELSE <<" ">>)
       \o units[j].text \o joinUnits(units, j + 1, printer)

RECURSIVE printStatement(_, _, _)
RECURSIVE bodyUnits(_, _, _, _)
RECURSIVE printContainer(_, _, _)

printStatement(node, quotes, printer) ==
  IF node.val.type.val = "BlockStatement"
  THEN <<"{">> \o printContainer(node, quotes, printer) \o <<"}">>
  ELSE printExpression(node.val.expression, quotes, printer)

\* leading comments (unless already printed as the trailing comments of the
\* statement before), the statement, its trailing comments
bodyUnits(body, m, quotes, printer) ==
  IF m > Len(body) THEN <<>>
  ELSE
    LET st == body[m]
        printed == IF m = 1 THEN {}
                   ELSE {c.val.start.val :
                           c \in Range(CommentsOf(body[m - 1],
                                                  "trailingComments"))}
        leading == SelectSeq(CommentUnits(CommentsOf(st, "leadingComments")),
                             LAMBDA u : u.start \notin printed)
    IN  leading
        \o <<[text |-> printStatement(st, quotes, printer),
              start |-> st.val.start.val, end |-> st.val.end.val]>>
        \o CommentUnits(CommentsOf(st, "trailingComments"))
        \o bodyUnits(body, m + 1, quotes, printer)

printContainer(node, quotes, printer) ==
  IF node.val.body.val = <<>>
  THEN joinUnits(CommentUnits(CommentsOf(node, "innerComments")), 1, printer)
  ELSE Bind(bodyUnits(node.val.body.val, 1, quotes, printer),
            LAMBDA units : joinUnits(units, 1, printer))

\* generate(ast, {comments: true, quotes}, code).code
generate(program, quotes, printer) == printContainer(program, quotes, printer)

\* String.prototype.trim
trim(code) ==
  LET inked == {i \in 1..Len(code) : code[i] # " "} IN
  IF inked = {} THEN <<>>
  ELSE SubSeq(code, CHOOSE i \in inked : \A j \in inked : i <= j,
                    CHOOSE i \in inked : \A j \in inked : i >= j)

\* prettyPrint(input): parse once, print with comments, trim
prettyPrint(input, printer) ==
  Bind(parse(input), LAMBDA ast :
    IF ast.ok
    THEN [ok |-> TRUE, error |-> NoError,
          code |-> Bind(generate(ast.program, "default", printer), trim)]
    ELSE [ok |-> FALSE, error |-> ast.error, code |-> <<>>])

\* normalizeSourceCode(sourceCode): parse, print with single quotes, trim
normalizeSourceCode(sourceCode, printer) ==
  Bind(parse(sourceCode), LAMBDA ast :
    IF ast.ok
    THEN [ok |-> TRUE, error |-> NoError,
          code |-> Bind(generate(ast.program, "single", printer), trim)]
    ELSE [ok |-> FALSE, error |-> ast.error, code |-> <<>>])

----------------------------------------------------------------------------
(* assertSourceAstEqual *)

\* jsonDiff.diffString(actualTree, expectedTree): the two trees it is given
diffString(actualTree, expectedTree) ==
  [actual |-> actualTree, expected |-> expectedTree]

\* a faulty variant that swallows a parse failure and goes on with an empty
\* tree
normalizedTree_Swallow(source, options, printer, which) ==
  Bind(normalizeSourceCode(source, printer), LAMBDA n :
    Bind(parse(n.code), LAMBDA p :
      [ok |-> TRUE, error |-> NoError,
       tree |-> IF n.ok /\ p.ok THEN stripMeta(p.program, options)
                ELSE EmptyObj,
       steps |-> <<"parse:" \o which, "generate:" \o which,
                   "reparse:" \o which, "stripMeta:" \o which>>]))

\* stripMeta(parse(normalizeSourceCode(source)).program, options), with the
\* calls made on the way; a parse error ends it
normalizedTree(source, options, printer, which) ==
  Bind(normalizeSourceCode(source, printer), LAMBDA n :
    IF ~n.ok
    THEN [ok |-> FALSE, error |-> n.error, tree |-> EmptyObj,
          steps |-> <<"parse:" \o which>>]
    ELSE
      Bind(parse(n.code), LAMBDA p :
        IF ~p.ok
        THEN [ok |-> FALSE, error |-> p.error, tree |-> EmptyObj,
              steps |-> <<"parse:" \o which, "generate:" \o which,
                          "reparse:" \o which>>]
        ELSE [ok |-> TRUE, error |-> NoError,
              tree |-> stripMeta(p.program, options),
              steps |-> <<"parse:" \o which, "generate:" \o which,
                          "reparse:" \o which, "stripMeta:" \o which>>]))

\* a faulty variant that leaves the new error its own stack
mismatchError_OwnStack(errMessage, e) ==
  [name |-> "Error", pos |-> 0, stack |-> "assertSourceAstEqual",
   report |-> <<errMessage>>]

\* lines 146-147: new Error(errMessage) with the stack of the caught error
mismatchError(errMessage, e) ==
  [name |-> "Error", pos |-> 0, stack |-> e.stack, report |-> <<errMessage>>]

\* what assert.deepStrictEqual throws
AssertionError ==
  [name |-> "AssertionError", pos |-> 0, stack |-> "assert.deepStrictEqual",
   report |-> <<>>]

Outcome(threw, error, console, steps, expectedTree, actualTree) ==
  [threw |-> threw, error |-> error, console |-> console, steps |-> steps,
   expectedTree |-> expectedTree, actualTree |-> actualTree]

\* the catch block: build the report, print it, throw the new error
errMessageOf(expectedCode, actualCode, excerpts, actualTree, expectedTree) ==
  [expectedFormattedCode |-> expectedCode,
   actualFormattedCode |-> actualCode,
   commonStr |-> excerpts.commonStr,
   excerptLength |-> excerptLength,
   excerptDiffFromExpected |-> excerpts.excerptDiffFromExpected,
   excerptDiffFromActual |-> excerpts.excerptDiffFromActual,
   astDiff |-> diffString(actualTree, expectedTree)]

mismatchPath(expected, actual, printer, expectedTree, actualTree, e, steps) ==
  Bind(prettyPrint(expected, printer).code, LAMBDA expectedFormattedCode :
    Bind(prettyPrint(actual, printer).code, LAMBDA actualFormattedCode :
      Bind(errMessageOf(expectedFormattedCode, actualFormattedCode,
                        divergenceExcerpts(expectedFormattedCode,
                                           actualFormattedCode),
                        actualTree, expectedTree),
           LAMBDA errMessage :
             Outcome(TRUE, mismatchError(errMessage, e), <<errMessage>>,
                     steps \o <<"prettyPrint:expected", "prettyPrint:actual",
                                "firstCommonSubstring", "diffString",
                                "console.error", "throw">>,
                     expectedTree, actualTree))))

\* assertSourceAstEqual(expected, actual, options): the outcome of one call
assertSourceAstEqual(expected, actual, options, printer) ==
  Bind(normalizedTree(expected, options, printer, "expected"), LAMBDA e :
    IF ~e.ok
    THEN Outcome(TRUE, e.error, <<>>, e.steps, EmptyObj, EmptyObj)
    ELSE
      Bind(normalizedTree(actual, options, printer, "actual"), LAMBDA a :
        IF ~a.ok
        THEN Outcome(TRUE, a.error, <<>>, e.steps \o a.steps, e.tree,
                     EmptyObj)
        ELSE
          LET steps == e.steps \o a.steps \o <<"deepStrictEqual">> IN
          IF deepStrictEqual(a.tree, e.tree)
          THEN Outcome(FALSE, NoError, <<>>, steps, e.tree, a.tree)
          ELSE mismatchPath(expected, actual, printer, e.tree, a.tree,
                            AssertionError, steps)))

(* Specification SpecAssert: one call of assertSourceAstEqual on an         *)
(* expected text and an actual text; the actual text is the expected one,  *)
(* one edit away from it, or a one-lexeme text.                             *)

MaxSource == 2     \* length of the expected text

Sources == SeqsUpTo(SourceChars, MaxSource)

Edits(src) ==
  {SubSeq(src, 1, i) \o <<c>> \o SubSeq(src, i + 1, Len(src)) :
     i \in 0..Len(src), c \in SourceChars}
  \cup {SubSeq(src, 1, i - 1) \o SubSeq(src, i + 1, Len(src)) :
          i \in 1..Len(src)}
  \cup {[src EXCEPT ![i] = c] : i \in 1..Len(src), c \in SourceChars}

ActualsFor(src) == {src} \cup Edits(src) \cup SeqsUpTo(SourceChars, 1)

InitRest_Assert ==
  /\ treeA = EmptyObj /\ treeB = EmptyObj /\ sOptions = OptUndefined
  /\ sOutA = EmptyObj /\ sOutB = EmptyObj /\ sPhase = "off"
  /\ sWraps = 0 /\ sMetas = 0
  /\ rLeft = <<>> /\ rRight = <<>> /\ rReport = <<>> /\ rPhase = "off"
  /\ tTable = <<>> /\ tOptions = OptUndefined /\ tGroups = <<>>
  /\ tTests = <<>> /\ tCalls = <<>> /\ tRuns = <<>> /\ tPhase = "off"

InitAssert ==
  /\ aExpected = <<>> /\ aActual = <<>> /\ aOptions = OptUndefined
  /\ aPrinter = "canonical"
  /\ aResult = Outcome(FALSE, NoError, <<>>, <<>>, EmptyObj, EmptyObj)
  /\ aPhase = "idle"
  /\ InitRest_Assert

AssertSourceAstEqual ==
  /\ aPhase = "idle"
  /\ \E expected \in Sources, options \in OptionValues, printer \in Printers :
       \E actual \in ActualsFor(expected) :
         /\ aExpected' = expected /\ aActual' = actual
         /\ aOptions' = options /\ aPrinter' = printer
         /\ aResult' = assertSourceAstEqual(expected, actual, options, printer)
  /\ aPhase' = "returned"
  /\ UNCHANGED <<stripVars, reportVars, runVars>>

NextAssert == AssertSourceAstEqual

SpecAssert == InitAssert /\ [][NextAssert]_vars

----------------------------------------------------------------------------
(* Properties of assertSourceAstEqual (SpecAssert) *)

Without(str, chars) == SelectSeq(str, LAMBDA c : c \notin chars)

Parseable(str) == parse(str).ok

Called == aPhase = "returned"

ReportSteps ==
  {"prettyPrint:expected", "prettyPrint:actual", "firstCommonSubstring",
   "diffString", "console.error"}

\* C3: for two parseable sources the call returns normally iff the two
\* normalized, stripped trees are equal as values; otherwise it throws an
\* error whose message is the divergence report and whose stack is that of
\* the equality failure; the report is built and printed only on that path.
C3_EqualIffReturns ==
  (Called /\ Parseable(aExpected) /\ Parseable(aActual)) =>
    /\ ~aResult.threw <=> (aResult.actualTree = aResult.expectedTree)
    /\ aResult.threw =>
         /\ aResult.error.name = "Error"
         /\ Len(aResult.error.report) = 1
         /\ aResult.error.report[1].commonStr =
              firstCommonSubstring(prettyPrint(aExpected, aPrinter).code,
                                   prettyPrint(aActual, aPrinter).code)
         /\ aResult.error.stack = AssertionError.stack
         /\ aResult.console = aResult.error.report
    /\ ~aResult.threw =>
         /\ aResult.console = <<>>
         /\ Range(aResult.steps) \cap ReportSteps = {}

C3_Witness ==
  /\ Called /\ aResult.threw /\ aResult.error.name = "Error"
  /\ aResult.actualTree.val.body.val # <<>>
  /\ DOMAIN aResult.actualTree.val = DOMAIN aResult.expectedTree.val
  /\ Len(aResult.actualTree.val.body.val)
       = Len(aResult.expectedTree.val.body.val)
  /\ aResult.error.report[1].commonStr # <<>>
  /\ aResult.error.report[1].excerptDiffFromExpected # <<>>

\* the two texts have the same lexemes once white space and comments are
\* left out, and differ in their comments
DifferOnlyInComments(x, y) ==
  /\ Without(x, {" ", "c"}) = Without(y, {" ", "c"})
  /\ Without(x, {" "}) # Without(y, {" "})

\* C4: with options absent or options.comments falsy, two sources that differ
\* only in an attached comment compare equal; with options.comments true the
\* same pair fails with a structural mismatch.
C4_CommentSensitivity ==
  (Called /\ Parseable(aExpected) /\ DifferOnlyInComments(aExpected, aActual))
    => IF KeepComments(aOptions)
       THEN aResult.threw /\ aResult.error.name = "Error"
       ELSE ~aResult.threw

\* what does hold: the pair fails when comments are kept, and passes when
\* they are not unless one of the comments is an inner comment
HasInnerComment(str) ==
  \E i \in 1..Len(str) :
    /\ str[i] = "c"
    /\ \A j \in 1..Len(str) : str[j] \in {"{", "}", " ", "c"}
C4_LeadingTrailingOnly ==
  (Called /\ Parseable(aExpected) /\ DifferOnlyInComments(aExpected, aActual))
    => IF KeepComments(aOptions)
       THEN aResult.threw /\ aResult.error.name = "Error"
       ELSE (HasInnerComment(aExpected) \/ HasInnerComment(aActual)
             \/ ~aResult.threw)

\* C7: a parse failure of the expected or the actual source reaches the
\* caller as the parser threw it; nothing is compared, no report is built or
\* printed.
C7_ParseErrorPropagates ==
  (Called /\ (~Parseable(aExpected) \/ ~Parseable(aActual))) =>
    /\ aResult.threw
    /\ aResult.error = (IF ~Parseable(aExpected) THEN parse(aExpected).error
                        ELSE parse(aActual).error)
    /\ aResult.console = <<>>
    /\ Range(aResult.steps) \cap (ReportSteps \cup {"deepStrictEqual"}) = {}
    /\ ~Parseable(aExpected) => aResult.steps = <<"parse:expected">>

C7_Witness ==
  /\ Called /\ Parseable(aExpected) /\ ~Parseable(aActual)
  /\ aExpected # <<>>
  /\ aResult.threw /\ aResult.error.name = "SyntaxError"
  /\ aResult.error.pos > 0

----------------------------------------------------------------------------
(* Specification SpecLayout: position-insensitivity, on trees built node by *)
(* node (the runs of SpecStrip) and on source texts: one call of            *)
(* assertSourceAstEqual on a text and the same text laid out differently.   *)
(* In such a run treeA and treeB are the programs the call hands to         *)
(* stripMeta (the expected one first; none, or only that one, when the      *)
(* parser throws), sOutA and sOutB what stripMeta returned for them.        *)

MaxLayout == 4     \* length of the expected text

LayoutChars == {"a", "c", " ", "<", ">"}

LayoutSources == SeqsUpTo(LayoutChars, MaxLayout)

\* src itself, src with one more line break, src with one line break less
Relayouts(src) ==
  {src}
  \cup {SubSeq(src, 1, i) \o <<" ">> \o SubSeq(src, i + 1, Len(src)) :
          i \in 0..Len(src)}
  \cup {SubSeq(src, 1, i - 1) \o SubSeq(src, i + 1, Len(src)) :
          i \in {j \in 1..Len(src) : src[j] = " "}}

\* parse(normalizeSourceCode(source)): the program stripMeta is called on
normalizedProgram(source, printer) ==
  Bind(normalizeSourceCode(source, printer), LAMBDA n :
    IF n.ok THEN parse(n.code)
    ELSE [ok |-> FALSE, error |-> n.error, program |-> EmptyObj])

InitLayout == InitStrip \/ InitAssert

AssertLayout ==
  /\ aPhase = "idle"
  /\ \E expected \in LayoutSources, options \in OptionValues,
        printer \in Printers :
       \E actual \in Relayouts(expected) :
         /\ aExpected' = expected /\ aActual' = actual
         /\ aOptions' = options /\ aPrinter' = printer
         /\ aResult' = assertSourceAstEqual(expected, actual, options, printer)
         /\ \E e \in {normalizedProgram(expected, printer)},
               a \in {normalizedProgram(actual, printer)} :
              IF e.ok /\ a.ok
              THEN /\ treeA' = e.program /\ treeB' = a.program
                   /\ sOptions' = options
                   /\ sOutA' = stripMeta(e.program, options)
                   /\ sOutB' = stripMeta(a.program, options)
                   /\ sPhase' = "stripped"
              ELSE IF e.ok
              THEN \* lines 97-100 ran, the parser threw in lines 101-104
                   /\ treeA' = e.program
                   /\ sOptions' = options
                   /\ sOutA' = stripMeta(e.program, options)
                   /\ sPhase' = "strippedExpected"
                   /\ UNCHANGED <<treeB, sOutB>>
              ELSE UNCHANGED <<treeA, treeB, sOptions, sOutA, sOutB, sPhase>>
  /\ aPhase' = "returned"
  /\ UNCHANGED <<sWraps, sMetas, reportVars, runVars>>

NextLayout == NextStrip \/ AssertLayout

SpecLayout == InitLayout /\ [][NextLayout]_vars

\* the calls of stripMeta recorded in the strip variables are the ones the
\* outcome lists: the expected program first, the actual one only if it
\* parsed
StripCallsAgree ==
  Called =>
    /\ (sPhase = "stripped") <=> ("stripMeta:actual" \in Range(aResult.steps))
    /\ (sPhase \in {"stripped", "strippedExpected"})
         <=> ("stripMeta:expected" \in Range(aResult.steps))
    /\ sPhase # "off" => sOutA = aResult.expectedTree
    /\ sPhase = "stripped" => sOutB = aResult.actualTree

\* the two texts have the same lexemes once white space is left out
DifferOnlyInLayout(x, y) == Without(x, {" "}) = Without(y, {" "})

\* the tokens of a text: white space is left out, except inside JSX text
\* (depth > 0), where it is part of the token, and except that a line break
\* between a statement that has no semicolon (afterJSX) and the token after
\* it is kept as "nl"
RECURSIVE TokensFrom(_, _, _, _, _)
TokensFrom(str, i, depth, afterJSX, broke) ==
  IF i > Len(str) THEN <<>>
  ELSE
    LET c == str[i] IN
    IF depth > 0
    THEN <<c>> \o TokensFrom(str, i + 1,
                             CASE c = "<" -> depth + 1
                               [] c = ">" -> depth - 1
                               [] OTHER -> depth,
                             c = ">" /\ depth = 1, FALSE)
    ELSE IF c = " "
    THEN TokensFrom(str, i + 1, 0, afterJSX, afterJSX)
    ELSE IF c = "c"
    THEN <<c>> \o TokensFrom(str, i + 1, 0, afterJSX, broke)
    ELSE (IF broke THEN <<"nl">> ELSE <<>>)
         \o <<c>>
         \o TokensFrom(str, i + 1, IF c = "<" THEN 1 ELSE 0, FALSE, FALSE)

Tokens(str) == TokensFrom(str, 1, 0, FALSE, FALSE)

\* the two texts have the same tokens and differ in white space only
SameTokens(x, y) == Tokens(x) = Tokens(y)

\* some white space of the text is JSX text
RECURSIVE HasJSXSpace(_, _, _)
HasJSXSpace(str, i, depth) ==
  /\ i <= Len(str)
  /\ \/ depth > 0 /\ str[i] = " "
     \/ HasJSXSpace(str, i + 1,
                    CASE str[i] = "<" -> depth + 1
                      [] str[i] = ">" /\ depth > 0 -> depth - 1
                      [] OTHER -> depth)

\* C5 as stated: two trees that are identical except for the values or the
\* presence of excluded position/metadata fields, on any node at any depth,
\* are deeply equal after stripMeta; so assertSourceAstEqual succeeds on two
\* sources that differ only in white space or line layout.
C5_Original_AnyLayout ==
  /\ (sPhase = "stripped" /\ SameOutside(treeA, treeB, ExcludedFieldNames))
       => deepStrictEqual(sOutA, sOutB)
  /\ (Called /\ Parseable(aExpected)
        /\ DifferOnlyInLayout(aExpected, aActual))
       => ~aResult.threw

\* C5 amended: two trees that are identical except for the values or the
\* presence of excluded position/metadata fields, on any node at any depth,
\* are deeply equal after stripMeta; so assertSourceAstEqual succeeds on two
\* sources whose parsed programs differ in those fields only, and these
\* include every two sources that have the same tokens and differ only in
\* white space between tokens: not in white space that is JSX text, and not
\* in a line break that ends a statement written without a semicolon.
C5_Amended_SameTokens ==
  /\ (sPhase = "stripped" /\ SameOutside(treeA, treeB, ExcludedFieldNames))
       => deepStrictEqual(sOutA, sOutB)
  /\ (Called /\ sPhase = "stripped"
        /\ SameOutside(treeA, treeB, ExcludedFieldNames))
       => ~aResult.threw
  /\ (Called /\ Parseable(aExpected) /\ SameTokens(aExpected, aActual))
       => /\ sPhase = "stripped"
          /\ SameOutside(treeA, treeB, ExcludedFieldNames)
          /\ ~aResult.threw

\* a call on a text that holds an element with white space as JSX text, and
\* the same text with a line break more or less outside the element: the
\* parsed programs differ (in positions inside arrays), the stripped trees
\* are equal, the call returns
C5_Witness ==
  /\ Called /\ sPhase = "stripped"
  /\ aExpected # aActual /\ SameTokens(aExpected, aActual)
  /\ HasJSXSpace(aExpected, 1, 0)
  /\ Len(treeA.val.body.val) >= 2
  /\ SameOutside(treeA, treeB, ExcludedFieldNames)
  /\ ~deepStrictEqual(treeA, treeB)
  /\ KeyInsideArray(treeA, {"loc"}, FALSE)
  /\ deepStrictEqual(sOutA, sOutB)
  /\ ~aResult.threw

\* the same for a line break that ends an element in statement position:
\* it is there in both texts, one has a second one
C5_LineBreakKeptReached ==
  /\ Called /\ sPhase = "stripped"
  /\ aExpected # aActual /\ SameTokens(aExpected, aActual)
  /\ "nl" \in Range(Tokens(aExpected))
  /\ deepStrictEqual(sOutA, sOutB)
  /\ ~aResult.threw

\* the tree half on trees built node by node: excluded fields present on one
\* side only, inside arrays
C5_TreeCaseReached ==
  /\ sPhase = "stripped" /\ sWraps >= 2
  /\ SameOutside(treeA, treeB, ExcludedFieldNames)
  /\ ~deepStrictEqual(treeA, treeB)
  /\ KeyInsideArray(treeA, {"parenStart"}, FALSE)
  /\ KeyInsideArray(treeB, {"parenStart"}, FALSE)
  /\ deepStrictEqual(sOutA, sOutB)

\* where the statement as made fails: white space added inside an element
\* (the call throws the mismatch error), and a line break removed after an
\* element in statement position (the call throws the parser's error)
C5_JSXTextCaseReached ==
  /\ Called /\ Parseable(aExpected) /\ Parseable(aActual)
  /\ DifferOnlyInLayout(aExpected, aActual)
  /\ aResult.threw /\ aResult.error.name = "Error"
C5_LineBreakCaseReached ==
  /\ Called /\ Parseable(aExpected) /\ ~Parseable(aActual)
  /\ sPhase = "strippedExpected" /\ sOutA = aResult.expectedTree
  /\ DifferOnlyInLayout(aExpected, aActual)
  /\ aResult.threw /\ aResult.error.name = "SyntaxError"

----------------------------------------------------------------------------
(* testSection and testCase *)

\* the throws directive of a table entry: the property may be missing, or
\* hold true, false, a string, or some other value (null)
ThrowsUndefined == [k |-> "undefined", s |-> <<>>]
ThrowsTrue      == [k |-> "true",      s |-> <<>>]
ThrowsFalse     == [k |-> "false",     s |-> <<>>]
ThrowsNull      == [k |-> "null",      s |-> <<>>]
ThrowsString(str) == [k |-> "string",  s |-> str]

\* String.prototype.includes
Includes(message, part) ==
  \E i \in 0..(Len(message) - Len(part)) :
    SubSeq(message, i + 1, i + Len(part)) = part

\* what one invocation of the transform does: throw an error with a message,
\* or return a source text
Throwing(message) == [throws |-> TRUE, message |-> message, result |-> <<>>]
Returning(code)   == [throws |-> FALSE, message |-> <<>>, result |-> code]

RunRecord(test, branch, passed, calls, compared) ==
  [name |-> test.name, branch |-> branch, passed |-> passed,
   calls |-> calls, compared |-> compared]

\* a faulty dispatch that tests `throws === false` before the string case
\* and treats every other falsy value as false
runTest_FalsyFirst(test, behaviour, printer) ==
  LET testInfo == test.testInfo
      call == [input |-> testInfo.input, options |-> testInfo.options]
  IN  IF testInfo.throws.k = "true"
      THEN RunRecord(test, "true", behaviour.throws, <<call>>, <<>>)
      ELSE IF testInfo.throws.k = "false"
              \/ (testInfo.throws.k = "string" /\ testInfo.throws.s = <<>>)
      THEN RunRecord(test, "false", ~behaviour.throws, <<call>>, <<>>)
      ELSE IF testInfo.throws.k = "string"
      THEN RunRecord(test, "string",
                     behaviour.throws
                       /\ Includes(behaviour.message, testInfo.throws.s),
                     <<call>>, <<>>)
      ELSE RunRecord(test, "compare", ~behaviour.throws, <<call>>, <<>>)

\* a faulty comparison branch that hands the entry's own options on (the
\* entry's options carry no comments flag)
runTest_EntryOptions(test, behaviour, printer) ==
  LET testInfo == test.testInfo
      call == [input |-> testInfo.input, options |-> testInfo.options]
  IN  IF testInfo.throws.k \in {"true", "string", "false"}
      THEN RunRecord(test, testInfo.throws.k,
                     IF testInfo.throws.k = "false" THEN ~behaviour.throws
                     ELSE behaviour.throws
                          /\ Includes(behaviour.message, testInfo.throws.s),
                     <<call>>, <<>>)
      ELSE IF behaviour.throws
      THEN RunRecord(test, "compare", FALSE, <<call>>, <<>>)
      ELSE RunRecord(test, "compare",
                     ~assertSourceAstEqual(testInfo.output, behaviour.result,
                                           OptObject("undefined"),
                                           printer).threw,
                     <<call>>,
                     <<[expected |-> testInfo.output,
                        actual |-> behaviour.result,
                        options |-> OptObject("undefined")]>>)

\* the body of the callback handed to it(): lines 156-172
runTest(test, behaviour, printer) ==
  LET testInfo == test.testInfo
      call == [input |-> testInfo.input, options |-> testInfo.options]
  IN  IF testInfo.throws.k = "true"
      THEN \* expect(() => transform(...)).toThrow()
           RunRecord(test, "true", behaviour.throws, <<call>>, <<>>)
      ELSE IF testInfo.throws.k = "string"
      THEN \* expect(() => transform(...)).toThrow(testInfo.throws)
           RunRecord(test, "string",
                     behaviour.throws
                       /\ Includes(behaviour.message, testInfo.throws.s),
                     <<call>>, <<>>)
      ELSE IF testInfo.throws.k = "false"
      THEN \* transform(...)
           RunRecord(test, "false", ~behaviour.throws, <<call>>, <<>>)
      ELSE \* expect(() => assertSourceAstEqual(output, transform(...),
           \*                                   options)).not.toThrow()
           IF behaviour.throws
           THEN RunRecord(test, "compare", FALSE, <<call>>, <<>>)
           ELSE RunRecord(test, "compare",
                          ~assertSourceAstEqual(testInfo.output,
                                                behaviour.result,
                                                test.options, printer).threw,
                          <<call>>,
                          <<[expected |-> testInfo.output,
                             actual |-> behaviour.result,
                             options |-> test.options]>>)

\* a faulty registration that skips the last key
testSection_DropLast(testData, options, group) ==
  [i \in 1..(Len(testData) - 1) |->
     [name |-> testData[i].key, testInfo |-> testData[i].testInfo,
      options |-> options, group |-> group]]

\* testSection(testData, transform, options): the it() registrations, one
\* per key in Object.keys order, each closing over its entry and the options
testSection(testData, options, group) ==
  [i \in 1..Len(testData) |->
     [name |-> testData[i].key, testInfo |-> testData[i].testInfo,
      options |-> options, group |-> group]]

\* testCase(name, plugins, testData, options): describe(name, ...) around
\* testSection
testCase(name, testData, options) ==
  [groups |-> <<name>>, tests |-> testSection(testData, options, name)]

(* Specification SpecRun: a table is registered through testCase or through *)
(* testSection, then the test framework runs the registered tests in order. *)

MaxTests == 2      \* keys of the test table

KeyName(i) == "test" \o ToString(i)

\* the entry stored under key number i, with the given throws directive
EntryFor(i, throws) ==
  [input |-> IF i % 2 = 1 THEN <<"a">> ELSE <<"s">>,
   output |-> IF i % 2 = 1 THEN <<"c", "a">> ELSE <<"a">>,
   options |-> "entryOptions" \o ToString(i),
   throws |-> throws]

ThrowsValues ==
  {ThrowsUndefined, ThrowsTrue, ThrowsFalse, ThrowsNull,
   ThrowsString(<<"f", "o">>), ThrowsString(<<>>)}

\* tables: up to MaxTests distinct keys, in any insertion order
RECURSIVE TablesOver(_)
TablesOver(keys) ==
  {<<>>} \cup
  UNION {{<<[key |-> KeyName(i), testInfo |-> EntryFor(i, t)]>> \o rest :
            t \in ThrowsValues, rest \in TablesOver(keys \ {i})} : i \in keys}

Tables == TablesOver(1..MaxTests)

Behaviours ==
  {Throwing(<<"f", "o", "o">>), Throwing(<<"o">>),
   Returning(<<"a">>), Returning(<<"s">>), Returning(<<"}">>)}

SharedOptions == {OptUndefined, OptObject("true")}

NoRun ==
  [name |-> "", branch |-> "", passed |-> FALSE, calls |-> <<>>,
   compared |-> <<>>]

InitRest_Run ==
  /\ treeA = EmptyObj /\ treeB = EmptyObj /\ sOptions = OptUndefined
  /\ sOutA = EmptyObj /\ sOutB = EmptyObj /\ sPhase = "off"
  /\ sWraps = 0 /\ sMetas = 0
  /\ rLeft = <<>> /\ rRight = <<>> /\ rReport = <<>> /\ rPhase = "off"
  /\ aExpected = <<>> /\ aActual = <<>> /\ aOptions = OptUndefined
  /\ aPrinter = "off" /\ aResult = <<>> /\ aPhase = "off"

\* tRuns: number of tests run so far, the record of the last one, what the
\* transform did in it and the printer in use
InitRun ==
  /\ tTable = <<>> /\ tOptions = OptUndefined
  /\ tGroups = <<>> /\ tTests = <<>>
  /\ tCalls = 0
  /\ tRuns = [done |-> 0, last |-> NoRun, behaviour |-> Returning(<<>>),
              printer |-> "canonical"]
  /\ tPhase = "unregistered"
  /\ InitRest_Run

\* testCase(name, plugins, testData, options)
TestCase ==
  /\ tPhase = "unregistered"
  /\ \E testData \in Tables, options \in SharedOptions :
       /\ tTable' = testData /\ tOptions' = options
       /\ tGroups' = tGroups \o testCase("group", testData, options).groups
       /\ tTests' = tTests \o testCase("group", testData, options).tests
  /\ tPhase' = "testCase"
  /\ UNCHANGED <<tCalls, tRuns>>
  /\ UNCHANGED <<stripVars, reportVars, assertVars>>

\* testSection(testData, transform, options), outside any group
TestSection ==
  /\ tPhase = "unregistered"
  /\ \E testData \in Tables, options \in SharedOptions :
       /\ tTable' = testData /\ tOptions' = options
       /\ tTests' = tTests \o testSection(testData, options, "")
  /\ tPhase' = "testSection"
  /\ UNCHANGED <<tGroups, tCalls, tRuns>>
  /\ UNCHANGED <<stripVars, reportVars, assertVars>>

\* the test framework runs the next registered test
RunTest ==
  /\ tPhase # "unregistered"
  /\ tRuns.done < Len(tTests)
  /\ \E behaviour \in Behaviours, printer \in Printers :
       LET run == runTest(tTests[tRuns.done + 1], behaviour, printer) IN
       /\ tRuns' = [done |-> tRuns.done + 1, last |-> run,
                    behaviour |-> behaviour, printer |-> printer]
       /\ tCalls' = tCalls + Len(run.calls)
  /\ UNCHANGED <<tTable, tOptions, tGroups, tTests, tPhase>>
  /\ UNCHANGED <<stripVars, reportVars, assertVars>>

NextRun == TestCase \/ TestSection \/ RunTest

SpecRun == InitRun /\ [][NextRun]_vars

----------------------------------------------------------------------------
(* Properties of the runner (SpecRun) *)

HasRun == tRuns.done >= 1
LastTest == tTests[tRuns.done]
LastInfo == LastTest.testInfo

\* C1: the throws directive decides the outcome: true passes iff the
\* transform raises, whatever the message; a string passes iff it raises an
\* error whose message contains the string; false passes iff it does not
\* raise; in none of the three is the output compared.
C1_ThrowsDispatch ==
  (HasRun /\ LastInfo.throws.k \in {"true", "string", "false"}) =>
    /\ tRuns.last.compared = <<>>
    /\ LastInfo.throws.k = "true" =>
         (tRuns.last.passed <=> tRuns.behaviour.throws)
    /\ LastInfo.throws.k = "string" =>
         (tRuns.last.passed <=>
            (tRuns.behaviour.throws
             /\ Includes(tRuns.behaviour.message, LastInfo.throws.s)))
    /\ LastInfo.throws.k = "false" =>
         (tRuns.last.passed <=> ~tRuns.behaviour.throws)

C1_Witness ==
  /\ HasRun /\ tRuns.done = 2
  /\ LastInfo.throws = ThrowsString(<<"f", "o">>)
  /\ tRuns.behaviour = Throwing(<<"o">>)
  /\ ~tRuns.last.passed
  /\ tTests[1].testInfo.throws = ThrowsFalse

\* C2: an entry without a throws key (or with a throws value that is not
\* true, a string or false) passes iff the transform returns and
\* assertSourceAstEqual(entry.output, result, shared options) does not raise.
C2_CompareBranch ==
  (HasRun /\ LastInfo.throws.k \notin {"true", "string", "false"}) =>
    /\ tRuns.last.passed <=>
         (/\ ~tRuns.behaviour.throws
          /\ ~assertSourceAstEqual(LastInfo.output, tRuns.behaviour.result,
                                   tOptions, tRuns.printer).threw)
    /\ tRuns.behaviour.throws => ~tRuns.last.passed /\ tRuns.last.compared = <<>>
    /\ ~tRuns.behaviour.throws =>
         tRuns.last.compared = <<[expected |-> LastInfo.output,
                                  actual |-> tRuns.behaviour.result,
                                  options |-> tOptions]>>
    /\ (~tRuns.behaviour.throws /\ ~Parseable(tRuns.behaviour.result))
         => ~tRuns.last.passed

C2_Witness ==
  /\ HasRun /\ LastInfo.throws = ThrowsNull
  /\ tOptions = OptObject("true")
  /\ LastInfo.output = <<"c", "a">>
  /\ tRuns.behaviour = Returning(<<"a">>)
  /\ ~tRuns.last.passed

\* C8: testCase opens exactly one named group; one test is registered per key
\* of the table, named by the key, in key order; the transform is not invoked
\* during registration, and each run of a test invokes it exactly once, with
\* the entry's input and the entry's options.
C8_RegistrationAndInvocation ==
  /\ tPhase = "unregistered" => (tGroups = <<>> /\ tTests = <<>> /\ tCalls = 0)
  /\ tPhase = "testCase" => Len(tGroups) = 1
  /\ tPhase = "testSection" => tGroups = <<>>
  /\ tPhase # "unregistered" =>
       /\ Len(tTests) = Len(tTable)
       /\ \A i \in 1..Len(tTable) :
            /\ tTests[i].name = tTable[i].key
            /\ tTests[i].testInfo = tTable[i].testInfo
            /\ tPhase = "testCase" => tTests[i].group = tGroups[1]
       /\ tCalls = tRuns.done
  /\ HasRun =>
       /\ tRuns.last.name = tTable[tRuns.done].key
       /\ tRuns.last.calls =
            <<[input |-> tTable[tRuns.done].testInfo.input,
               options |-> tTable[tRuns.done].testInfo.options]>>

C8_Witness ==
  /\ tPhase = "testCase" /\ Len(tTable) = 2
  /\ tTable[1].key = KeyName(2) /\ tTable[2].key = KeyName(1)
  /\ tRuns.done = 2 /\ tCalls = 2
  /\ tRuns.last.branch = "compare"
  /\ tTests[1].testInfo.throws = ThrowsTrue

====
